---- MODULE Spec2Model ----
(***************************************************************************)
(* State-machine model of the Framer plugin MCP server (src/src/index.ts): *)
(* the tool dispatcher, the create_plugin handler with its chain of        *)
(* awaited filesystem operations, the build_plugin handler with its        *)
(* blocking execSync, and the SIGINT handler.                              *)
(*                                                                         *)
(* Every handler is an async function: it runs synchronously up to its     *)
(* next await, where it is suspended until the awaited filesystem          *)
(* operation completes.  One action of the model is one such synchronous   *)
(* segment, together with the effect of the filesystem operation whose     *)
(* completion resumed it.  execSync does not suspend: it blocks the only   *)
(* thread, so nothing else runs until the external process has exited.     *)
(***************************************************************************)
EXTENDS Integers, Sequences, FiniteSets, TLC

VARIABLES
    serverState,     \* "running" | "exited"
    requireDefined,  \* whether `require` is bound in the module (CommonJS build) or not (ES module build)
    pc,              \* per request: where its handler is suspended
    req,             \* per request: the request received
    local,           \* per request: the handler's locals (pluginDir, the caught error)
    resp,            \* per request: the response sent
    proc,            \* per request: the external process it spawned
    fs               \* the filesystem: absolute path -> node

vars == <<serverState, requireDefined, pc, req, local, resp, proc, fs>>

-----------------------------------------------------------------------------
(* Bounds *)

\* Number of requests the client sends in one run.
MaxCalls == 2

CallIds == 1..MaxCalls

-----------------------------------------------------------------------------
(* Optional values: JavaScript's undefined is None, a present value v is Some(v). *)

None == <<>>

Some(v) == <<v>>

-----------------------------------------------------------------------------
(* Paths.  A raw path is [abs, segs]; an absolute path is the sequence of its segments. *)

\* process.cwd()
Cwd == <<"w">>

RECURSIVE Normalize(_, _)
\* path.normalize on the segments: "." dropped, ".." removes the segment before it.
Normalize(segs, acc) ==
    IF segs = <<>> THEN acc
    ELSE IF Head(segs) = "." THEN Normalize(Tail(segs), acc)
    ELSE IF Head(segs) = ".."
         THEN Normalize(Tail(segs), IF acc = <<>> THEN acc ELSE SubSeq(acc, 1, Len(acc) - 1))
    ELSE Normalize(Tail(segs), Append(acc, Head(segs)))

\* path.resolve(p): an absolute path is normalized, a relative one is resolved against the cwd.
Resolve(p) == Normalize(IF p.abs THEN p.segs ELSE Cwd \o p.segs, <<>>)

\* path.join(dir, name)
Join(dir, name) == Append(dir, name)

Parent(p) == SubSeq(p, 1, Len(p) - 1)

Prefixes(p) == { SubSeq(p, 1, n) : n \in 0..Len(p) }

-----------------------------------------------------------------------------
(* The filesystem *)

\* The directory the create requests of the model resolve to, and a regular file.
PluginDir == <<"w", "out", "p">>

OtherFile == <<"w", "f">>

\* The six entries create_plugin makes, in the order of the code.
ArtifactOrder ==
    << <<"package.json">>, <<"tsconfig.json">>, <<"tsconfig.node.json">>,
       <<"vite.config.ts">>, <<"src">>, <<"src", "index.tsx">> >>

\* An entry no handler writes.
StrayEntry == <<"README.md">>

EntryPaths(dir) == { dir \o ArtifactOrder[i] : i \in DOMAIN ArtifactOrder } \cup { dir \o StrayEntry }

FsPaths == Prefixes(PluginDir) \cup Prefixes(OtherFile) \cup EntryPaths(PluginDir) \cup EntryPaths(OtherFile)

Absent == [kind |-> "absent", content |-> None]

Dir == [kind |-> "dir", content |-> None]

File(content) == [kind |-> "file", content |-> Some(content)]

\* What a write that failed after opening the file with flag 'w' leaves: a truncated file.
Truncated == [kind |-> "file", content |-> None]

IsDir(f, p) == f[p].kind = "dir"

Exists(f, p) == f[p].kind # "absent"

InitFs ==
    [p \in FsPaths |->
        IF p \in Prefixes(Cwd) THEN Dir
        ELSE IF p = OtherFile THEN File([other |-> TRUE])
        ELSE Absent]

\* An error: message text and the value interpolated after it.
Err(text, arg) == [text |-> text, arg |-> arg]

NoError == Err("", <<>>)

\* fs.ensureDir(p) = mkdir -p: a no-op on a directory, EEXIST on a file, ENOTDIR under a
\* file, and otherwise p and its missing ancestors become directories.
EnsureDir(f, p) ==
    IF IsDir(f, p) THEN [err |-> NoError, fs |-> f]
    ELSE IF f[p].kind = "file" THEN [err |-> Err("EEXIST: file already exists, mkdir ", p), fs |-> f]
    ELSE IF \E q \in Prefixes(p) : f[q].kind = "file"
         THEN [err |-> Err("ENOTDIR: not a directory, mkdir ", p), fs |-> f]
    ELSE [err |-> NoError,
          fs |-> [q \in FsPaths |-> IF q \in Prefixes(p) THEN Dir ELSE f[q]]]

\* A write that opens p with flag 'a': what was there stays, content is added after it.
WriteFileAppends(f, p, content) ==
    IF f[Parent(p)].kind # "dir"
    THEN [err |-> Err("ENOENT: no such file or directory, open ", p), fs |-> f]
    ELSE IF IsDir(f, p)
    THEN [err |-> Err("EISDIR: illegal operation on a directory, open ", p), fs |-> f]
    ELSE [err |-> NoError,
          fs |-> [f EXCEPT ![p] = [kind |-> "file", content |-> Append(f[p].content, content)]]]

\* fs.writeFile(p, content): opens p with flag 'w' (create or truncate) and writes content.
WriteFile(f, p, content) ==
    IF f[Parent(p)].kind = "absent"
    THEN [err |-> Err("ENOENT: no such file or directory, open ", p), fs |-> f]
    ELSE IF f[Parent(p)].kind = "file"
    THEN [err |-> Err("ENOTDIR: not a directory, open ", p), fs |-> f]
    ELSE IF IsDir(f, p)
    THEN [err |-> Err("EISDIR: illegal operation on a directory, open ", p), fs |-> f]
    ELSE [err |-> NoError, fs |-> [f EXCEPT ![p] = File(content)]]

\* fs.pathExists(p): whether p can be accessed, whatever its kind.
PathExists(f, p) == Exists(f, p)

\* How the operating system can fail an operation that would otherwise work: not at all,
\* before touching the file (EACCES), or after truncating it (ENOSPC).
IoFaults == {"none", "EACCES", "ENOSPC"}

\* The outcome of an operation under a fault.
UnderFault(fault, f, p, outcome) ==
    IF outcome.err # NoError \/ fault = "none" THEN outcome
    ELSE IF fault = "EACCES" THEN [err |-> Err("EACCES: permission denied, ", p), fs |-> f]
    ELSE [err |-> Err("ENOSPC: no space left on device, ", p),
          fs |-> IF outcome.fs[p].kind = "file" THEN [f EXCEPT ![p] = Truncated] ELSE f]

-----------------------------------------------------------------------------
(* Requests *)

FeatureEnum == {"wallet-connect", "contract-interaction", "nft-display"}

\* Names are sequences of characters.
NameWidget == <<"w", "i", "d">>

RelPluginPath == [abs |-> FALSE, segs |-> <<"out", "p">>]

AbsPluginPath == [abs |-> TRUE, segs |-> <<"w", ".", "out", "x", "..", "p">>]

RelFilePath == [abs |-> FALSE, segs |-> <<"f">>]

\* The working directory itself: a directory that exists from the start.
DotPath == [abs |-> FALSE, segs |-> <<".">>]

CreateArgs(name, description, outputPath, web3Features) ==
    [name |-> name, description |-> description, outputPath |-> outputPath,
     web3Features |-> web3Features]

CallRequest(name, args) == [method |-> "tools/call", name |-> name, args |-> args]

\* The create_plugin requests of the concurrent specification.
CreateRequests ==
    { CallRequest("create_plugin", CreateArgs(Some(NameWidget), "d", o, w)) :
        o \in {AbsPluginPath, RelFilePath},
        w \in {None, Some(<<"wallet-connect">>)} }

BuildRequests ==
    { CallRequest("build_plugin", [pluginPath |-> o]) : o \in {RelPluginPath, RelFilePath, DotPath} }

UnknownNames == {"delete_plugin", "create_plugin "}

UnknownRequests == { CallRequest(n, <<>>) : n \in UnknownNames }

ListRequest == [method |-> "tools/list", name |-> "", args |-> <<>>]

NoRequest == [method |-> "none", name |-> "", args |-> <<>>]

-----------------------------------------------------------------------------
(* Responses *)

\* An McpError: its code, and its message as the literal prefix followed by the
\* message of the error it wraps.
McpError(code, prefix, e) == [kind |-> "error", code |-> code, prefix |-> prefix, message |-> e]

\* { content: [{ type: 'text', text }] }
TextResult(prefix, dir) == [kind |-> "result", code |-> "ok", prefix |-> prefix, message |-> Err("", dir)]

NoResponse == [kind |-> "none", code |-> "", prefix |-> "", message |-> NoError]

ToolList ==
    << [name |-> "create_plugin", required |-> <<"name", "description", "outputPath">>,
        optional |-> <<"web3Features">>],
       [name |-> "build_plugin", required |-> <<"pluginPath">>, optional |-> <<>>] >>

ListResult == [kind |-> "result", code |-> "ok", prefix |-> "tools", message |-> Err("", ToolList)]

-----------------------------------------------------------------------------
(* What create_plugin generates *)

\* A test of the first element only (web3Features?.[0] === x).
IncludesFirstOnly(opt, x) == opt # None /\ opt[1] # <<>> /\ opt[1][1] = x

\* args.web3Features?.includes(x): false when web3Features is undefined.
Includes(opt, x) == opt # None /\ \E i \in DOMAIN opt[1] : opt[1][i] = x

WantsWallet(args) == Includes(args.web3Features, "wallet-connect")

BaseDependencies ==
    << <<"@framer/framer.motion", "^10.0.0">>, <<"react", "^18.2.0">>, <<"react-dom", "^18.2.0">> >>

Web3Dependencies ==
    << <<"@web3-react/core", "^8.2.0">>, <<"@web3-react/injected-connector", "^6.0.7">>,
       <<"ethers", "^6.7.0">> >>

DevDependencies ==
    << <<"@types/react", "^18.2.0">>, <<"typescript", "^5.0.0">>, <<"vite", "^4.0.0">>,
       <<"@vitejs/plugin-react", "^4.0.0">> >>

\* The package descriptor; an undefined name is a property JSON.stringify leaves out.
PackageJson(args) ==
    [name |-> args.name,
     version |-> "1.0.0",
     description |-> args.description,
     main |-> "dist/index.js",
     scripts |-> << <<"build", "vite build">>, <<"dev", "vite">> >>,
     dependencies |-> IF WantsWallet(args) THEN BaseDependencies \o Web3Dependencies
                      ELSE BaseDependencies,
     devDependencies |-> DevDependencies]

TsConfig ==
    [compilerOptions |->
        [target |-> "ES2020", lib |-> <<"DOM", "DOM.Iterable", "ESNext">>, module |-> "ESNext",
         skipLibCheck |-> TRUE, moduleResolution |-> "bundler",
         allowImportingTsExtensions |-> TRUE, resolveJsonModule |-> TRUE,
         isolatedModules |-> TRUE, noEmit |-> TRUE, jsx |-> "react-jsx", strict |-> TRUE,
         noUnusedLocals |-> TRUE, noUnusedParameters |-> TRUE,
         noFallthroughCasesInSwitch |-> TRUE],
     include |-> <<"src">>,
     references |-> <<"./tsconfig.node.json">>]

TsNodeConfig ==
    [compilerOptions |->
        [composite |-> TRUE, skipLibCheck |-> TRUE, module |-> "ESNext",
         moduleResolution |-> "bundler", allowSyntheticDefaultImports |-> TRUE],
     include |-> <<"vite.config.ts">>]

\* What fs.writeJSON(file, obj, { spaces }) writes: the object's JSON text at that indentation.
JsonText(obj, spaces) == [json |-> obj, spaces |-> spaces]

\* `${x}` in a template literal: the text of x, "undefined" for undefined.
Interpolate(opt) ==
    IF opt = None THEN <<"u", "n", "d", "e", "f", "i", "n", "e", "d">> ELSE opt[1]

ViteConfig(args) == [template |-> "vite.config.ts", libName |-> Interpolate(args.name)]

\* name.replace('-', '_'): the first dash only.
ReplaceFirstDash(name) ==
    [i \in DOMAIN name |->
        IF name[i] = "-" /\ (\A j \in 1..(i - 1) : name[j] # "-") THEN "_" ELSE name[i]]

\* name.replace(/-/g, '_')
ReplaceDashes(name) == [i \in DOMAIN name |-> IF name[i] = "-" THEN "_" ELSE name[i]]

PlainIndex(args) ==
    [variant |-> "plain",
     exportIdent |-> ReplaceDashes(args.name[1]),
     controlsIdent |-> ReplaceDashes(args.name[1]),
     defaultText |-> "Hello World"]

WalletIndex(args) ==
    [variant |-> "wallet",
     exportIdent |-> ReplaceDashes(args.name[1]),
     controlsIdent |-> ReplaceDashes(args.name[1]),
     defaultText |-> "Connect Wallet"]

\* indexContent: the plain template, replaced by the wallet template when wallet-connect is asked for.
IndexContent(args) == IF WantsWallet(args) THEN WalletIndex(args) ELSE PlainIndex(args)

-----------------------------------------------------------------------------
(* The server *)

NoLocal == [pluginDir |-> <<>>, caught |-> NoError]

Init ==
    /\ serverState = "running"
    /\ requireDefined \in BOOLEAN
    /\ pc = [c \in CallIds |-> "idle"]
    /\ req = [c \in CallIds |-> NoRequest]
    /\ local = [c \in CallIds |-> NoLocal]
    /\ resp = [c \in CallIds |-> NoResponse]
    /\ proc = [c \in CallIds |-> "none"]
    /\ fs = InitFs

\* An external build process is running: execSync has the thread.
Blocked == \E c \in CallIds : proc[c] = "running"

\* The event loop if the build were started without waiting for it (exec, not execSync).
EventLoopNeverBlocked == serverState = "running"

\* The event loop can run a callback: the process is alive and not inside execSync.
EventLoopFree == serverState = "running" /\ ~Blocked

\* The next request takes the first unused slot.
NextSlot(c) == pc[c] = "idle" /\ \A d \in CallIds : d < c => pc[d] # "idle"

\* A throw that nothing turns into a response: the process dies.
ThrowCrashes(c, e) ==
    /\ pc' = [pc EXCEPT ![c] = "done"]
    /\ resp' = [resp EXCEPT ![c] = e]
    /\ serverState' = "exited"

\* The handler's promise rejects with e: the protocol layer answers the request with the
\* error, and the process goes on.
Throw(c, e) ==
    /\ pc' = [pc EXCEPT ![c] = "done"]
    /\ resp' = [resp EXCEPT ![c] = e]
    /\ serverState' = serverState

\* The handler's promise resolves with r.
Return(c, r) ==
    /\ pc' = [pc EXCEPT ![c] = "done"]
    /\ resp' = [resp EXCEPT ![c] = r]
    /\ serverState' = serverState

\* The handler is suspended at its next await.
Suspend(c, at) ==
    /\ pc' = [pc EXCEPT ![c] = at]
    /\ resp' = resp
    /\ serverState' = serverState

\* catch (error) { throw new McpError(ErrorCode.InternalError, `${prefix}${error.message}`) }
Catch(c, prefix, e) ==
    /\ local' = [local EXCEPT ![c].caught = e]
    /\ Throw(c, McpError("InternalError", prefix, e))

CreateFailed == "Failed to create plugin: "

BuildFailed == "Failed to build plugin: "

\* handleCreatePlugin up to its first await: resolve the output path, start ensureDir.
HandleCreatePlugin(c, args) ==
    /\ local' = [local EXCEPT ![c].pluginDir = Resolve(args.outputPath)]
    /\ Suspend(c, "ensureDir")
    /\ UNCHANGED <<proc, fs>>

\* handleBuildPlugin up to its first await: resolve the plugin path, start pathExists.
HandleBuildPlugin(c, args) ==
    /\ local' = [local EXCEPT ![c].pluginDir = Resolve(args.pluginPath)]
    /\ Suspend(c, "pathExists")
    /\ UNCHANGED <<proc, fs>>

\* Dispatch with a default branch whose message does not carry the requested name.
DispatchStaticMessage(c, r) ==
    CASE r.name = "create_plugin" -> HandleCreatePlugin(c, r.args)
      [] r.name = "build_plugin" -> HandleBuildPlugin(c, r.args)
      [] OTHER -> /\ Throw(c, McpError("MethodNotFound", "Unknown tool", NoError))
                  /\ UNCHANGED <<local, proc, fs>>

\* The CallToolRequestSchema handler: the switch on request.params.name.
Dispatch(c, r) ==
    CASE r.name = "create_plugin" -> HandleCreatePlugin(c, r.args)
      [] r.name = "build_plugin" -> HandleBuildPlugin(c, r.args)
      [] OTHER -> /\ Throw(c, McpError("MethodNotFound", "Unknown tool: ", Err("", <<r.name>>)))
                  /\ UNCHANGED <<local, proc, fs>>

\* A tools/call request arrives and its handler runs to its first await.
Receive(c, r) ==
    /\ EventLoopFree
    /\ NextSlot(c)
    /\ req' = [req EXCEPT ![c] = r]
    /\ Dispatch(c, r)
    /\ UNCHANGED requireDefined

CallCreate(c) == \E r \in CreateRequests : Receive(c, r)

CallBuild(c) == \E r \in BuildRequests : Receive(c, r)

CallUnknown(c) == \E r \in UnknownRequests : Receive(c, r)

\* The ListToolsRequestSchema handler.
ListTools(c) ==
    /\ EventLoopFree
    /\ NextSlot(c)
    /\ req' = [req EXCEPT ![c] = ListRequest]
    /\ Return(c, ListResult)
    /\ UNCHANGED <<requireDefined, local, proc, fs>>

\* A step whose operation is not awaited: its failure is not seen and the handler goes on.
CreateStepNotAwaited(c, at, outcome, next) ==
    /\ EventLoopFree
    /\ pc[c] = at
    /\ fs' = outcome.fs
    /\ Suspend(c, next)
    /\ local' = local
    /\ UNCHANGED <<requireDefined, req, proc>>

\* A step whose catch block cleans up by removing package.json.
CreateStepCleansUp(c, at, outcome, next) ==
    /\ EventLoopFree
    /\ pc[c] = at
    /\ IF outcome.err # NoError
       THEN /\ fs' = [outcome.fs EXCEPT ![Join(local[c].pluginDir, "package.json")] = Absent]
            /\ Catch(c, CreateFailed, outcome.err)
       ELSE /\ fs' = outcome.fs
            /\ Suspend(c, next)
            /\ local' = local
    /\ UNCHANGED <<requireDefined, req, proc>>

\* A step of handleCreatePlugin: the awaited operation `at` completes with `outcome`; on an
\* error the catch block runs, otherwise the handler goes on to start the operation `next`.
CreateStep(c, at, outcome, next) ==
    /\ EventLoopFree
    /\ pc[c] = at
    /\ fs' = outcome.fs
    /\ IF outcome.err # NoError
       THEN Catch(c, CreateFailed, outcome.err)
       ELSE Suspend(c, next) /\ local' = local
    /\ UNCHANGED <<requireDefined, req, proc>>

\* await fs.ensureDir(pluginDir)
AwaitEnsureDir(c) ==
    \E fault \in IoFaults :
        LET dir == local[c].pluginDir IN
        CreateStep(c, "ensureDir", UnderFault(fault, fs, dir, EnsureDir(fs, dir)), "package.json")

\* await fs.writeJSON(path.join(pluginDir, 'package.json'), packageJson, { spaces: 2 })
AwaitWritePackageJson(c) ==
    \E fault \in IoFaults :
        LET p == Join(local[c].pluginDir, "package.json") IN
        CreateStep(c, "package.json",
                   UnderFault(fault, fs, p, WriteFile(fs, p, JsonText(PackageJson(req[c].args), 2))),
                   "tsconfig.json")

\* await fs.writeJSON(path.join(pluginDir, 'tsconfig.json'), tsConfig, { spaces: 2 })
AwaitWriteTsConfig(c) ==
    \E fault \in IoFaults :
        LET p == Join(local[c].pluginDir, "tsconfig.json") IN
        CreateStep(c, "tsconfig.json",
                   UnderFault(fault, fs, p, WriteFile(fs, p, JsonText(TsConfig, 2))),
                   "tsconfig.node.json")

\* await fs.writeJSON(path.join(pluginDir, 'tsconfig.node.json'), tsNodeConfig, { spaces: 2 })
AwaitWriteTsNodeConfig(c) ==
    \E fault \in IoFaults :
        LET p == Join(local[c].pluginDir, "tsconfig.node.json") IN
        CreateStep(c, "tsconfig.node.json",
                   UnderFault(fault, fs, p, WriteFile(fs, p, JsonText(TsNodeConfig, 2))),
                   "vite.config.ts")

\* await fs.writeFile(path.join(pluginDir, 'vite.config.ts'), viteConfig)
AwaitWriteViteConfig(c) ==
    \E fault \in IoFaults :
        LET p == Join(local[c].pluginDir, "vite.config.ts") IN
        CreateStep(c, "vite.config.ts",
                   UnderFault(fault, fs, p, WriteFile(fs, p, ViteConfig(req[c].args))),
                   "src")

\* The TypeError of args.name.replace when name is undefined.
NameTypeError == Err("Cannot read properties of undefined (reading 'replace')", <<>>)

\* await fs.ensureDir(srcDir), then the index template is composed: args.name.replace
\* throws when name is undefined.
AwaitEnsureSrcDir(c) ==
    \E fault \in IoFaults :
        LET p == Join(local[c].pluginDir, "src")
            made == UnderFault(fault, fs, p, EnsureDir(fs, p))
        IN  CreateStep(c, "src",
                       IF made.err = NoError /\ req[c].args.name = None
                       THEN [err |-> NameTypeError, fs |-> made.fs]
                       ELSE made,
                       "src/index.tsx")

\* await fs.writeFile(path.join(srcDir, 'index.tsx'), indexContent), then the return.
AwaitWriteIndex(c) ==
    \E fault \in IoFaults :
        LET p == Join(Join(local[c].pluginDir, "src"), "index.tsx")
            outcome == UnderFault(fault, fs, p, WriteFile(fs, p, IndexContent(req[c].args)))
        IN  /\ EventLoopFree
            /\ pc[c] = "src/index.tsx"
            /\ fs' = outcome.fs
            /\ IF outcome.err # NoError
               THEN Catch(c, CreateFailed, outcome.err)
               ELSE /\ Return(c, TextResult("Successfully created Framer plugin project at ",
                                            local[c].pluginDir))
                    /\ local' = local
            /\ UNCHANGED <<requireDefined, req, proc>>

\* The exit statuses of `npm run build`.
ExitStatuses == {0, 1}

\* execSync('npm run build', { cwd: pluginDir, stdio: 'inherit' }): the spawn fails when the
\* cwd is not a directory; otherwise the process runs and this thread waits for it.
ExecSync(c, dir) ==
    IF ~IsDir(fs, dir)
    THEN /\ Catch(c, BuildFailed, Err("spawnSync /bin/sh ENOTDIR", <<>>))
         /\ proc' = [proc EXCEPT ![c] = "spawnfailed"]
    ELSE /\ Suspend(c, "execSync")
         /\ local' = local
         /\ proc' = [proc EXCEPT ![c] = "running"]

\* await fs.pathExists(pluginDir), then the check, the require and the call of execSync.
AwaitPathExists(c) ==
    /\ EventLoopFree
    /\ pc[c] = "pathExists"
    /\ LET dir == local[c].pluginDir IN
       IF ~PathExists(fs, dir)
       THEN Catch(c, BuildFailed, Err("Plugin directory not found: ", dir)) /\ proc' = proc
       ELSE IF ~requireDefined
       THEN Catch(c, BuildFailed, Err("require is not defined", <<>>)) /\ proc' = proc
       ELSE ExecSync(c, dir)
    /\ UNCHANGED <<requireDefined, req, fs>>

\* An execSync whose exit status is not looked at.
ExecSyncIgnoresStatus(c) ==
    \E status \in ExitStatuses :
        /\ serverState = "running"
        /\ proc[c] = "running"
        /\ proc' = [proc EXCEPT ![c] = IF status = 0 THEN "exited0" ELSE "exited"]
        /\ Return(c, TextResult("Successfully built plugin at ", local[c].pluginDir))
        /\ local' = local
        /\ UNCHANGED <<requireDefined, req, fs>>

\* The external process exits and execSync returns (status 0) or throws (any other status).
\* What the external build writes below pluginDir is not part of the model.
ExecSyncReturns(c) ==
    \E status \in ExitStatuses :
        /\ serverState = "running"
        /\ proc[c] = "running"
        /\ proc' = [proc EXCEPT ![c] = IF status = 0 THEN "exited0" ELSE "exited"]
        /\ IF status = 0
           THEN /\ Return(c, TextResult("Successfully built plugin at ", local[c].pluginDir))
                /\ local' = local
           ELSE Catch(c, BuildFailed, Err("Command failed: npm run build", <<>>))
        /\ UNCHANGED <<requireDefined, req, fs>>

\* process.on('SIGINT'): the server is closed and the process exits; handlers in flight are
\* abandoned where they are suspended.
Sigint ==
    /\ EventLoopFree
    /\ serverState' = "exited"
    /\ UNCHANGED <<requireDefined, pc, req, local, resp, proc, fs>>

Next ==
    \/ \E c \in CallIds :
        \/ CallCreate(c)
        \/ CallBuild(c)
        \/ CallUnknown(c)
        \/ ListTools(c)
        \/ AwaitEnsureDir(c)
        \/ AwaitWritePackageJson(c)
        \/ AwaitWriteTsConfig(c)
        \/ AwaitWriteTsNodeConfig(c)
        \/ AwaitWriteViteConfig(c)
        \/ AwaitEnsureSrcDir(c)
        \/ AwaitWriteIndex(c)
        \/ AwaitPathExists(c)
        \/ ExecSyncReturns(c)
    \/ Sigint

Spec == Init /\ [][Next]_vars

-----------------------------------------------------------------------------
(* One create_plugin call over the range of its inputs *)

MaxNameLen == 2

MaxFeatures == 2

SeqsUpTo(S, n) == UNION { [1..k -> S] : k \in 0..n }

NameAlphabet == {"a", "-", "_"}

\* name: undefined, or a non-empty text.
GenNames == {None} \cup { Some(n) : n \in SeqsUpTo(NameAlphabet, MaxNameLen) \ {<<>>} }

\* web3Features: undefined, or an array of enum values.
GenFeatures == {None} \cup { Some(w) : w \in SeqsUpTo(FeatureEnum, MaxFeatures) }

GenCreateRequests ==
    { CallRequest("create_plugin", CreateArgs(n, "d", RelPluginPath, w)) :
        n \in GenNames, w \in GenFeatures }

\* The state after the first request, a create_plugin call, has been dispatched.
InitGen ==
    /\ serverState = "running"
    /\ requireDefined \in BOOLEAN
    /\ \E r \in GenCreateRequests :
        /\ req = [c \in CallIds |-> IF c = 1 THEN r ELSE NoRequest]
        /\ local = [c \in CallIds |->
                      IF c = 1 THEN [NoLocal EXCEPT !.pluginDir = Resolve(r.args.outputPath)]
                      ELSE NoLocal]
    /\ pc = [c \in CallIds |-> IF c = 1 THEN "ensureDir" ELSE "idle"]
    /\ resp = [c \in CallIds |-> NoResponse]
    /\ proc = [c \in CallIds |-> "none"]
    /\ fs = InitFs

NextGen ==
    \E c \in CallIds :
        \/ AwaitEnsureDir(c)
        \/ AwaitWritePackageJson(c)
        \/ AwaitWriteTsConfig(c)
        \/ AwaitWriteTsNodeConfig(c)
        \/ AwaitWriteViteConfig(c)
        \/ AwaitEnsureSrcDir(c)
        \/ AwaitWriteIndex(c)

SpecGen == InitGen /\ [][NextGen]_vars

-----------------------------------------------------------------------------
(* Vocabulary of the properties *)

IsCall(c) == req[c].method = "tools/call"

IsCreate(c) == IsCall(c) /\ req[c].name = "create_plugin"

IsBuild(c) == IsCall(c) /\ req[c].name = "build_plugin"

IsUnknown(c) == IsCall(c) /\ req[c].name \notin {"create_plugin", "build_plugin"}

InFlight(c) == pc[c] \notin {"idle", "done"}

Answered(c) == pc[c] = "done"

Succeeded(c) == Answered(c) /\ resp[c].kind = "result"

Failed(c) == Answered(c) /\ resp[c].kind = "error"

\* The five files of a plugin project.
FiveFiles(dir) ==
    { dir \o <<"package.json">>, dir \o <<"tsconfig.json">>, dir \o <<"tsconfig.node.json">>,
      dir \o <<"vite.config.ts">>, dir \o <<"src", "index.tsx">> }

IsFile(p) == fs[p].kind = "file"

\* p is a file that was written to its end.
IsWritten(p) == fs[p].kind = "file" /\ fs[p].content # None

Content(p) == fs[p].content[1]

-----------------------------------------------------------------------------
(* C1 *)

\* C1: every tools/call request whose name is neither create_plugin nor build_plugin is
\* answered in the step that receives it with the MethodNotFound error whose message is
\* "Unknown tool: " followed by exactly the requested name, it spawns no process, and that
\* step leaves the filesystem and the processes as they were.
C1_UnknownToolRejected ==
    /\ [](\A c \in CallIds :
            IsUnknown(c) =>
                /\ Failed(c)
                /\ resp[c].code = "MethodNotFound"
                /\ resp[c].prefix = "Unknown tool: "
                /\ resp[c].message = Err("", <<req[c].name>>)
                /\ proc[c] = "none")
    /\ [][\A c \in CallIds : (pc[c] = "idle" /\ IsUnknown(c)') => (fs' = fs /\ proc' = proc)]_vars

\* An unknown tool (a near miss of a real name) was rejected while a create_plugin call had
\* already written files.
C1_Witness ==
    \E c, d \in CallIds :
        /\ Failed(c) /\ req[c].name = "create_plugin " /\ resp[c].code = "MethodNotFound"
        /\ IsCreate(d) /\ IsWritten(Join(PluginDir, "package.json"))

-----------------------------------------------------------------------------
(* C2 *)

\* C2: every answered create_plugin call either returned the success text carrying the
\* resolved output directory, with nothing caught, all five files present and, the directory
\* having been fresh, nothing in it but the five files and src; or it was answered with the
\* InternalError whose message is "Failed to create plugin: " followed by the message of the
\* error that was caught.
C2_CreateAllOrError ==
    \A c \in CallIds :
        (IsCreate(c) /\ Answered(c)) =>
            LET dir == Resolve(req[c].args.outputPath) IN
            \/ /\ resp[c] = TextResult("Successfully created Framer plugin project at ", dir)
               /\ local[c].caught = NoError
               /\ \A p \in FiveFiles(dir) : IsFile(p)
               /\ IsDir(fs, Join(dir, "src"))
               /\ ~Exists(fs, dir \o StrayEntry)
            \/ /\ resp[c].kind = "error"
               /\ resp[c].code = "InternalError"
               /\ resp[c].prefix = CreateFailed
               /\ local[c].caught # NoError
               /\ resp[c].message = local[c].caught

\* One create_plugin call succeeded and another failed at a write that left a truncated file.
C2_Witness ==
    \E c, d \in CallIds :
        /\ IsCreate(c) /\ Succeeded(c)
        /\ IsCreate(d) /\ Failed(d)
        /\ local[d].caught.text = "ENOSPC: no space left on device, "

-----------------------------------------------------------------------------
(* C3 *)

\* C3 (as claimed, in a build where require is bound): a build_plugin call has an external
\* process only when its resolved pluginPath is a directory, and a call answered while that
\* path is not a directory was answered with the InternalError whose message carries
\* "Plugin directory not found: " followed by the resolved path, with no process spawned.
\* Directories are never removed, so a path that is no directory now was none at the check.
C3_BuildOnlyOnDirectory ==
    requireDefined =>
        \A c \in CallIds :
            IsBuild(c) =>
                LET dir == Resolve(req[c].args.pluginPath) IN
                /\ proc[c] \in {"running", "exited0", "exited"} => IsDir(fs, dir)
                /\ (Answered(c) /\ ~IsDir(fs, dir)) =>
                        /\ Failed(c)
                        /\ resp[c].code = "InternalError"
                        /\ resp[c].prefix = BuildFailed
                        /\ resp[c].message = Err("Plugin directory not found: ", dir)
                        /\ proc[c] = "none"

-----------------------------------------------------------------------------
(* C4 *)

-----------------------------------------------------------------------------
(* C5 *)

\* C5: a step in which a request is answered with an error leaves the server running; the
\* server leaves the running state only in a step in which no handler acts (the SIGINT
\* handler's); and whenever the server is running, not inside execSync, and the client has a
\* request left to send, a list-tools, create_plugin or build_plugin request can be received.
C5_FailuresDoNotStopServer ==
    /\ [][(\E c \in CallIds : ~Failed(c) /\ Failed(c)') => serverState' = "running"]_vars
    /\ [][(serverState = "running" /\ serverState' # "running") =>
            UNCHANGED <<pc, req, local, resp, proc, fs>>]_vars
    /\ [](\A c \in CallIds :
            (serverState = "running" /\ ~Blocked /\ NextSlot(c)) =>
                (ENABLED ListTools(c) /\ ENABLED CallCreate(c) /\ ENABLED CallBuild(c)))

\* An unknown tool was rejected, and the create_plugin request that came after it succeeded.
C5_Witness ==
    \E c, d \in CallIds :
        /\ c < d
        /\ IsUnknown(c) /\ Failed(c)
        /\ IsCreate(d) /\ Succeeded(d)
        /\ serverState = "running"

-----------------------------------------------------------------------------
(* C6 *)

\* Whether the web3Features of args holds wallet-connect, anywhere in the array.
HasWalletConnect(args) ==
    /\ args.web3Features # None
    /\ "wallet-connect" \in { args.web3Features[1][i] : i \in DOMAIN args.web3Features[1] }

\* args with web3Features reduced to whether it holds wallet-connect.
Reduced(args) ==
    [args EXCEPT !.web3Features = IF HasWalletConnect(args) THEN Some(<<"wallet-connect">>) ELSE None]

-----------------------------------------------------------------------------
(* C7 *)

\* The files create_plugin writes for args.
FilesAre(dir, args) ==
    /\ fs[Join(dir, "package.json")] = File(JsonText(PackageJson(args), 2))
    /\ fs[Join(dir, "tsconfig.json")] = File(JsonText(TsConfig, 2))
    /\ fs[Join(dir, "tsconfig.node.json")] = File(JsonText(TsNodeConfig, 2))
    /\ fs[Join(dir, "vite.config.ts")] = File(ViteConfig(args))
    /\ fs[Join(Join(dir, "src"), "index.tsx")] = File(IndexContent(args))

\* The messages of the faults of the operating system.
FaultTexts == {"EACCES: permission denied, ", "ENOSPC: no space left on device, "}

\* C7: when a create_plugin call has succeeded and a later call has the same arguments, the
\* later call fails only by a fault of the operating system, never because the directory is
\* populated; and once both have succeeded, with no third create_plugin call on that
\* directory, the five files hold what one call with these arguments writes, and the
\* directory holds nothing else.
C7_CreateTwiceSameFiles ==
    \A c, d \in CallIds :
        (c < d /\ IsCreate(c) /\ IsCreate(d) /\ req[c].args = req[d].args /\ Succeeded(c)) =>
            LET dir == Resolve(req[c].args.outputPath) IN
            /\ Failed(d) => local[d].caught.text \in FaultTexts
            /\ (/\ Succeeded(d)
                /\ \A e \in CallIds \ {c, d} :
                     IsCreate(e) => Resolve(req[e].args.outputPath) # dir) =>
                    /\ FilesAre(dir, req[c].args)
                    /\ IsDir(fs, Join(dir, "src"))
                    /\ ~Exists(fs, dir \o StrayEntry)

\* Two create_plugin calls with the same arguments, the wallet variant, have both succeeded.
C7_Witness ==
    \E c, d \in CallIds :
        /\ c < d
        /\ IsCreate(c) /\ IsCreate(d) /\ req[c].args = req[d].args
        /\ WantsWallet(req[c].args)
        /\ Succeeded(c) /\ Succeeded(d)

-----------------------------------------------------------------------------
(* C8 *)

\* id is name with every '-' replaced by '_' and no other character changed.
DashesReplaced(name, id) ==
    /\ Len(id) = Len(name)
    /\ \A i \in 1..Len(name) :
        /\ name[i] = "-" => id[i] = "_"
        /\ name[i] # "-" => id[i] = name[i]

\* C8: in a create_plugin call with a name, the index.tsx written, plain or wallet, uses as the
\* identifier of the exported function and of the addPropertyControls call the name with
\* every '-' replaced by '_' and nothing else changed, while the package.json and the
\* vite.config.ts written carry the name as given.
C8_IdentifierIsNameWithUnderscores ==
    LET a == req[1].args
        dir == Resolve(a.outputPath)
        idx == Join(Join(dir, "src"), "index.tsx")
        pkg == Join(dir, "package.json")
        vite == Join(dir, "vite.config.ts")
    IN  /\ IsWritten(idx) =>
            /\ a.name # None
            /\ DashesReplaced(a.name[1], Content(idx).exportIdent)
            /\ DashesReplaced(a.name[1], Content(idx).controlsIdent)
        /\ (IsWritten(pkg) /\ a.name # None) => Content(pkg).json.name = a.name
        /\ (IsWritten(vite) /\ a.name # None) => Content(vite).libName = a.name[1]

\* A name of two dashes was written as two underscores in the wallet variant, and as given
\* in package.json.
C8_Witness ==
    /\ req[1].args.name = Some(<<"-", "-">>)
    /\ WantsWallet(req[1].args)
    /\ Succeeded(1)
    /\ Content(Join(Join(PluginDir, "src"), "index.tsx")).exportIdent = <<"_", "_">>
    /\ Content(Join(PluginDir, "package.json")).json.name = Some(<<"-", "-">>)

-----------------------------------------------------------------------------
(* C9 *)

\* C9: a build_plugin call has succeeded only if its external process exited with status 0;
\* a process that exited with another status gave the InternalError "Failed to build plugin:
\* Command failed"; a call whose process is running is not answered; and in a step taken
\* while an external process is running no other request is received, resumed or answered,
\* and the filesystem and the server state stay as they are.
C9_BuildBlocksUntilExit ==
    /\ [](\A c \in CallIds :
            IsBuild(c) =>
                /\ Succeeded(c) =>
                    /\ proc[c] = "exited0"
                    /\ resp[c] = TextResult("Successfully built plugin at ",
                                            Resolve(req[c].args.pluginPath))
                /\ proc[c] = "exited" =>
                    /\ Failed(c)
                    /\ resp[c].code = "InternalError"
                    /\ resp[c].prefix = BuildFailed
                    /\ resp[c].message = Err("Command failed: npm run build", <<>>)
                /\ proc[c] = "running" => ~Answered(c))
    /\ [][Blocked =>
            /\ \A d \in CallIds :
                 proc[d] # "running" => (pc'[d] = pc[d] /\ resp'[d] = resp[d] /\ req'[d] = req[d])
            /\ fs' = fs
            /\ serverState' = serverState]_vars

\* A build_plugin call has succeeded while a create_plugin call, suspended all through the
\* build, is still in flight.
C9_Witness ==
    \E c, d \in CallIds :
        /\ IsBuild(c) /\ Succeeded(c) /\ proc[c] = "exited0"
        /\ IsCreate(d) /\ InFlight(d)

-----------------------------------------------------------------------------
(* C10 *)

\* C10: in every state the entries present under an output directory are a prefix of
\* package.json, tsconfig.json, tsconfig.node.json, vite.config.ts, src, src/index.tsx, and
\* no step removes an entry that is present.
C10_FilesArePrefix ==
    /\ [](\A dir \in {PluginDir, OtherFile} :
            \A i \in 2..Len(ArtifactOrder) :
                Exists(fs, dir \o ArtifactOrder[i]) => Exists(fs, dir \o ArtifactOrder[i - 1]))
    /\ [][\A p \in FsPaths : Exists(fs, p) => Exists(fs', p)]_vars

\* A create_plugin call has failed and left the four root files with no src beside them.
C10_Witness ==
    \E c \in CallIds :
        /\ IsCreate(c) /\ Failed(c)
        /\ Exists(fs, Join(PluginDir, "vite.config.ts"))
        /\ ~Exists(fs, Join(PluginDir, "src"))

====
